---------------------------- MODULE Spec2Model ----------------------------
(***************************************************************************)
(* Version lifecycle managers of qwer-plugins: GoPlugin (go_plugin.py) and *)
(* NodePlugin (node_plugin.py).  Each manager installs versions of its     *)
(* runtime under its install root, removes them, and activates one by      *)
(* rewriting the user's persisted Path (HKCU\Environment\Path).            *)
(*                                                                         *)
(* Python strings are modelled as sequences of one-character strings, so   *)
(* that split, join, lower and the substring tests of the code are         *)
(* computed character by character.                                        *)
(***************************************************************************)
EXTENDS Naturals, Sequences, FiniteSets, TLC

(***************************************************************************)
(* Bounds of the model.                                                    *)
(***************************************************************************)
\* number of public calls (install / uninstall / use_version) in one run
MaxOps == 2
\* number of install calls among them
MaxInstalls == 1

(***************************************************************************)
(* Python str primitives.                                                  *)
(***************************************************************************)
\* str.lower() on one character (the letters that occur in the model)
LowerChar(c) ==
  CASE c = "A" -> "a" [] c = "B" -> "b" [] c = "C" -> "c" [] c = "D" -> "d"
    [] c = "E" -> "e" [] c = "F" -> "f" [] c = "G" -> "g" [] c = "H" -> "h"
    [] c = "I" -> "i" [] c = "J" -> "j" [] c = "K" -> "k" [] c = "L" -> "l"
    [] c = "M" -> "m" [] c = "N" -> "n" [] c = "O" -> "o" [] c = "P" -> "p"
    [] c = "Q" -> "q" [] c = "R" -> "r" [] c = "S" -> "s" [] c = "T" -> "t"
    [] c = "U" -> "u" [] c = "V" -> "v" [] c = "W" -> "w" [] c = "X" -> "x"
    [] c = "Y" -> "y" [] c = "Z" -> "z" [] OTHER -> c

\* str.lower()
Lower(s) == [i \in 1..Len(s) |-> LowerChar(s[i])]

\* a in b  (substring test)
IsSub(a, b) ==
  \E i \in 0..Len(b) : i + Len(a) <= Len(b) /\ SubSeq(b, i + 1, i + Len(a)) = a

\* s.startswith(a)
StartsWith(s, a) == Len(a) <= Len(s) /\ SubSeq(s, 1, Len(a)) = a

\* s.find(sep) + 1, or 0 when sep does not occur in s (sep is non-empty)
Find(s, sep) ==
  LET hits == {i \in 1..Len(s) : i + Len(sep) - 1 <= Len(s)
                                 /\ SubSeq(s, i, i + Len(sep) - 1) = sep}
  IN IF hits = {} THEN 0 ELSE CHOOSE i \in hits : \A k \in hits : i <= k

\* s.split(sep): always at least one part; "".split(sep) = [""]
RECURSIVE Split(_, _)
Split(s, sep) ==
  LET i == Find(s, sep)
  IN IF i = 0 THEN <<s>>
     ELSE <<SubSeq(s, 1, i - 1)>> \o Split(SubSeq(s, i + Len(sep), Len(s)), sep)

\* sep.join(parts): "" for an empty list
RECURSIVE Join(_, _)
Join(parts, sep) ==
  IF parts = <<>> THEN <<>>
  ELSE IF Len(parts) = 1 THEN parts[1]
  ELSE parts[1] \o sep \o Join(Tail(parts), sep)

(***************************************************************************)
(* String literals of the two plugins.                                     *)
(***************************************************************************)
Semi      == <<";">>
BSlash    == <<"\\">>
Space     == <<" ">>
Dash      == <<"-">>
S_go      == <<"g", "o">>
S_bin     == <<"b", "i", "n">>
S_node    == <<"n", "o", "d", "e">>
S_winx64  == <<"w", "i", "n", "-", "x", "6", "4">>
S_zip     == <<".", "z", "i", "p">>
S_amd64   == <<".", "w", "i", "n", "d", "o", "w", "s", "-", "a", "m", "d", "6", "4">>

Runtimes == {"go", "node"}

\* packages_dir handed to the plugins' constructors
PackagesDir == <<"C", ":", "\\", "p">>

\* pathlib's "/" on Windows paths
PathJoin(a, b) == a \o BSlash \o b

\* self.go_dir / self.node_dir
RuntimeDir(r) == PathJoin(PackagesDir, IF r = "go" THEN S_go ELSE S_node)


(***************************************************************************)
(* Version tags used as inputs.  Go tags are the release names ("go1"),    *)
(* plus a tag without the "go" prefix; Node tags are raw ("v8"), in the    *)
(* display form built by get_available_versions ("v9 (LTS: X)"), or carry  *)
(* a hyphen ("v8-rc").                                                     *)
(***************************************************************************)
T_go1    == <<"g", "o", "1">>
T_go2    == <<"g", "o", "2">>
T_100    == <<"1", ".", "0", ".", "0">>
T_v8     == <<"v", "8">>
T_v9lts  == <<"v", "9", " ", "(", "L", "T", "S", ":", " ", "X", ")">>
T_v8rc   == <<"v", "8", "-", "r", "c">>

Tags(r) == IF r = "go" THEN {T_go1, T_go2, T_100}
           ELSE {T_v8, T_v9lts, T_v8rc}

(***************************************************************************)
(* Install directory layout, as each method computes it.                   *)
(***************************************************************************)
\* node: clean_version = version.split(" ")[0]; go uses the tag as given
CleanVersion(r, version) ==
  IF r = "node" THEN Split(version, Space)[1] ELSE version

\* name of install_dir under the install root (use_version / uninstall)
DirName(r, version) == CleanVersion(r, version)

\* name of download_path under the install root (install)
ZipName(r, version) ==
  IF r = "go" THEN version \o S_amd64 \o S_zip
  ELSE S_node \o Dash \o CleanVersion(r, version) \o S_zip

\* pathlib's Path.stem: the file name without its last suffix
Stem(name) ==
  LET dots == {i \in 2..Len(name) : name[i] = "."}
  IN IF dots = {} THEN name
     ELSE SubSeq(name, 1, (CHOOSE i \in dots : \A k \in dots : k <= i) - 1)

\* node: clean_version = download_path.stem.split("-")[1]
\* go:   extract_dir = self.go_dir / version
ExtractDirName(r, version) ==
  IF r = "node" THEN Split(Stem(ZipName(r, version)), Dash)[2] ELSE version

\* the directory use_version appends to the Path
UseBinDir(r, version) ==
  LET install_dir == PathJoin(RuntimeDir(r), DirName(r, version))
  IN IF r = "go" THEN PathJoin(install_dir, S_bin)
     ELSE PathJoin(install_dir,
                   S_node \o Dash \o CleanVersion(r, version) \o Dash \o S_winx64)

\* go install: go_bin_path_str = str(extract_dir / "go" / "bin")
InstallBinDir(version) ==
  PathJoin(PathJoin(PathJoin(RuntimeDir("go"), version), S_go), S_bin)

DirNames(r) == {DirName(r, t) : t \in Tags(r)} \cup {ExtractDirName(r, t) : t \in Tags(r)}
ZipNames(r) == {ZipName(r, t) : t \in Tags(r)}

(***************************************************************************)
(* Environment Path editor.  The persisted Path is a record: exists=FALSE  *)
(* when the registry value is absent (QueryValueEx raises                  *)
(* FileNotFoundError), otherwise value holds the string.                   *)
(***************************************************************************)
NotSet == [exists |-> FALSE, value |-> <<>>]
PathOf(s) == [exists |-> TRUE, value |-> s]

\* the two tokens of a runtime's signature
NameToken(r) == IF r = "go" THEN S_go ELSE S_node
BinToken(r)  == IF r = "go" THEN S_bin ELSE S_winx64

\* "go" in part.lower() and "bin" in part.lower()
Matches(r, part) ==
  IsSub(NameToken(r), Lower(part)) /\ IsSub(BinToken(r), Lower(part))

\* faulty variant: empty segments are dropped as well
RECURSIVE DropMatchingAndEmpty(_, _)
DropMatchingAndEmpty(r, parts) ==
  IF parts = <<>> THEN <<>>
  ELSE IF Matches(r, Head(parts)) \/ Head(parts) = <<>>
       THEN DropMatchingAndEmpty(r, Tail(parts))
       ELSE <<Head(parts)>> \o DropMatchingAndEmpty(r, Tail(parts))

\* [path for path in parts if "go" not in path.lower() or "bin" not in path.lower()]
RECURSIVE DropMatching(_, _)
DropMatching(r, parts) ==
  IF parts = <<>> THEN <<>>
  ELSE (IF Matches(r, parts[1]) THEN <<>> ELSE <<parts[1]>>)
       \o DropMatching(r, Tail(parts))

\* faulty variant: only the first matching segment is dropped
RECURSIVE DropFirstMatching(_, _)
DropFirstMatching(r, parts) ==
  IF parts = <<>> THEN <<>>
  ELSE IF Matches(r, parts[1]) THEN Tail(parts)
  ELSE <<parts[1]>> \o DropFirstMatching(r, Tail(parts))

RemoveFirstPath(r, p) ==
  IF p.exists THEN PathOf(Join(DropFirstMatching(r, Split(p.value, Semi)), Semi))
  ELSE p

\* _remove_all_go_paths / _remove_all_node_paths
RemoveAllPaths(r, p) ==
  IF p.exists THEN PathOf(Join(DropMatching(r, Split(p.value, Semi)), Semi))
  ELSE p

\* _update_environment_variable
UpdateEnvironmentVariable(p, bin_dir) ==
  IF p.exists
  THEN IF ~IsSub(bin_dir, p.value)
       THEN PathOf(IF p.value # <<>> THEN p.value \o Semi \o bin_dir ELSE bin_dir)
       ELSE p
  ELSE PathOf(bin_dir)

\* get_current_version: the first matching part decides; [kind |-> "error"]
\* is the IndexError of split(...)[1] on a part without the pattern
NoVersion == [kind |-> "none", version |-> <<>>]

\* faulty variant: the text after the version is not cut off
ExtractVersionWholeTail(r, part) ==
  LET pre == IF r = "go" THEN S_go \o BSlash ELSE S_node \o Dash
      a   == Split(part, pre)
  IN IF Len(a) < 2 THEN [kind |-> "error", version |-> <<>>]
     ELSE [kind |-> "value", version |-> a[2]]

ExtractVersion(r, part) ==
  LET pre  == IF r = "go" THEN S_go \o BSlash ELSE S_node \o Dash
      post == IF r = "go" THEN BSlash \o S_bin ELSE Dash \o S_winx64
      a    == Split(part, pre)
  IN IF Len(a) < 2 THEN [kind |-> "error", version |-> <<>>]
     ELSE [kind |-> "value", version |-> Split(a[2], post)[1]]

GetCurrentVersion(r, p) ==
  IF ~p.exists THEN NoVersion
  ELSE LET parts == Split(p.value, Semi)
           hits  == {i \in 1..Len(parts) : Matches(r, parts[i])}
       IN IF hits = {} THEN NoVersion
          ELSE ExtractVersion(r, parts[CHOOSE i \in hits : \A k \in hits : i <= k])

(***************************************************************************)
(* State.                                                                  *)
(***************************************************************************)
VARIABLES
  mgr,    \* the plugin instance the caller drives in this run: "go" or "node"
  path,   \* the persisted user Path (HKCU\Environment, value "Path")
  dirs,   \* dirs[r][name]: the directory `name` under r's install root:
          \*   "absent", "complete" (a fully extracted release tree) or
          \*   "partial" (some entries of an archive are missing)
  zips,   \* zips[r][name]: the file `name` under r's install root:
          \*   "absent", "valid" (an intact archive) or "corrupt"
          \*   (zero-length, truncated or not an archive)
  jobs,   \* one record per install call: its DownloadThread and its caller
  ops,    \* number of public calls made so far
  last,   \* the latest public call: what was called and what it returned
  prev,   \* the public call before it
  edits   \* use_version calls made from concurrent threads, one record each:
          \*   how far the call has got and the Path value it read last

vars == <<mgr, path, dirs, zips, jobs, ops, last, prev, edits>>

NoCall == [op |-> "none", rt |-> "none", arg |-> <<>>, res |-> "none",
           before |-> NotSet, after |-> NotSet]

Call(op, r, version, res, before, after) ==
  [op |-> op, rt |-> r, arg |-> version, res |-> res,
   before |-> before, after |-> after]

(***************************************************************************)
(* Install root queries.                                                   *)
(***************************************************************************)
\* Path.exists() of a directory under the install root
Exists(d) == d # "absent"

\* get_installed_versions: go lists the directories whose name starts with
\* "go", node lists every directory
GetInstalledVersions(r, ds) ==
  IF r = "go"
  THEN {n \in DOMAIN ds : Exists(ds[n]) /\ StartsWith(n, S_go)}
  ELSE {n \in DOMAIN ds : Exists(ds[n])}

(***************************************************************************)
(* use_version.                                                            *)
(***************************************************************************)
\* faulty variant: the new directory is appended without removing the
\* runtime's old segments
UseVersionNoRemove(r, version, ds, p) ==
  IF Exists(ds[DirName(r, version)])
  THEN [res |-> "ok", path |-> UpdateEnvironmentVariable(p, UseBinDir(r, version))]
  ELSE [res |-> "notfound", path |-> p]

\* faulty variant: install_dir.exists() is not consulted
UseVersionNoCheck(r, version, ds, p) ==
  [res |-> "ok",
   path |-> UpdateEnvironmentVariable(RemoveAllPaths(r, p), UseBinDir(r, version))]

\* use_version: the result ("ok": "已切换到 ..."; "notfound": go returns
\* "未找到 ...", node raises it) and the Path it leaves
UseVersionResult(r, version, ds, p) ==
  IF Exists(ds[DirName(r, version)])
  THEN [res |-> "ok",
        path |-> UpdateEnvironmentVariable(RemoveAllPaths(r, p),
                                           UseBinDir(r, version))]
  ELSE [res |-> "notfound", path |-> p]

(***************************************************************************)
(* Initial states: an install root holding some complete versions (Go      *)
(* keeps the archive of each beside it, Node deletes it), no install in    *)
(* progress, and a persisted Path drawn from InitPaths.                    *)
(***************************************************************************)
Other     == <<"C", ":", "\\", "W">>
StaleGo   == <<"D", ":", "\\", "G", "O", "\\", "B", "I", "N">>
StaleNode == <<"D", ":", "\\", "N", "O", "D", "E", "-", "W", "I", "N", "-", "X", "6", "4">>

InitPaths ==
  { NotSet,
    PathOf(<<>>),
    PathOf(Other \o Semi \o UseBinDir("go", T_go1) \o Semi \o UseBinDir("node", T_v8)),
    PathOf(StaleNode \o Semi \o UseBinDir("go", T_go2) \o Semi \o Semi \o Other
           \o Semi \o UseBinDir("node", T_v9lts) \o Semi \o StaleGo
           \o Semi \o UseBinDir("go", T_go1) \o Semi \o UseBinDir("node", T_v8)
           \o Semi) }

\* the versions found installed at start: none, or two of each runtime
InitInstalled == { [r \in Runtimes |-> {}],
                   [r \in Runtimes |-> IF r = "go" THEN {T_go1, T_go2}
                                       ELSE {T_v8, CleanVersion("node", T_v9lts)}] }

DirsOf(r, installed) ==
  [n \in DirNames(r) |-> IF n \in installed THEN "complete" ELSE "absent"]

ZipsOf(r, installed) ==
  [z \in ZipNames(r) |->
     IF r = "go" /\ \E n \in installed : z = ZipName(r, n) THEN "valid" ELSE "absent"]

Init ==
  /\ mgr \in Runtimes
  /\ path \in InitPaths
  /\ \E inst \in InitInstalled :
       /\ dirs = [r \in Runtimes |-> DirsOf(r, inst[r])]
       /\ zips = [r \in Runtimes |-> ZipsOf(r, inst[r])]
  /\ jobs = <<>>
  /\ ops = 0
  /\ last = NoCall
  /\ prev = NoCall
  /\ edits = <<>>

(***************************************************************************)
(* The foreground control flow.  GoPlugin.install blocks its caller in     *)
(* download_thread.wait(); NodePlugin.install returns at once.             *)
(***************************************************************************)
Idle == \A j \in 1..Len(jobs) : jobs[j].pc = "returned"

\* a public method of plugin r can be called
CanCall(r) == mgr = r /\ Idle /\ ops < MaxOps

UseVersion(r, version) ==
  /\ CanCall(r)
  /\ LET u == UseVersionResult(r, version, dirs[r], path)
     IN /\ path' = u.path
        /\ last' = Call("use_version", r, version, u.res, path, u.path)
  /\ prev' = last
  /\ ops' = ops + 1
  /\ UNCHANGED <<edits, mgr, dirs, zips, jobs>>

\* set_default: return self.use_version(version)
SetDefault(r, version) == UseVersion(r, version)

\* uninstall: shutil.rmtree(install_dir); a PermissionError (a locked file)
\* stops the removal, before or after other entries were deleted
Uninstall(r, version) ==
  /\ CanCall(r)
  /\ LET name == DirName(r, version)
     IN IF Exists(dirs[r][name])
        THEN \E out \in {"ok", "denied", "denied_midway"} :
               /\ dirs' = [dirs EXCEPT ![r][name] =
                             CASE out = "ok" -> "absent"
                               [] out = "denied" -> @
                               [] out = "denied_midway" -> "partial"]
               /\ last' = Call("uninstall", r, version,
                               IF out = "ok" THEN "ok" ELSE "permission",
                               path, path)
        ELSE /\ dirs' = dirs
             /\ last' = Call("uninstall", r, version, "notfound", path, path)
  /\ prev' = last
  /\ ops' = ops + 1
  /\ UNCHANGED <<edits, mgr, path, zips, jobs>>

(***************************************************************************)
(* Download jobs.  A job record holds the DownloadThread of one install    *)
(* call (thread: "started" -> "streaming" -> "finished"), the caller's     *)
(* position (pc: "wait" while GoPlugin.install blocks, else "returned"),   *)
(* the finished signals queued for NodePlugin's connected slot (sigq), the *)
(* log of what the job did (events) and the outcome reported (result).     *)
(***************************************************************************)
NewJob(r, version) ==
  [rt |-> r, version |-> version, zip |-> ZipName(r, version),
   thread |-> "started",
   pc |-> IF r = "go" THEN "wait" ELSE "returned",
   sigq |-> <<>>, events |-> <<>>,
   result |-> IF r = "go" THEN "pending" ELSE "started"]

\* install: both plugins create and start a DownloadThread (_download_file
\* returns True unconditionally); node returns "下载已开始", go goes on to
\* download_thread.wait()
StartInstall(r, version) ==
  /\ CanCall(r)
  /\ jobs' = Append(jobs, NewJob(r, version))
  /\ last' = Call("install", r, version, NewJob(r, version).result, path, path)
  /\ prev' = last
  /\ ops' = ops + 1
  /\ UNCHANGED <<edits, mgr, path, dirs, zips>>

\* install, at most MaxInstalls times in a run
Install(r, version) == Len(jobs) < MaxInstalls /\ StartInstall(r, version)

\* install, as often as the caller's MaxOps calls allow: nothing in install
\* or _download_file looks at a download_thread that is still running
InstallAgain(r, version) == StartInstall(r, version)

\* the signals DownloadThread.run emits when request_manager.get returns an
\* error string: go emits and returns; node emits, raises, and its own
\* except clause emits again
ErrorStringSignals(r) ==
  IF r = "go" THEN <<"error", "finished_false">>
  ELSE <<"error", "finished_false", "error", "finished_false">>

\* the signals emitted by the except clause of run
ExceptionSignals == <<"error", "finished_false">>

\* the arguments of the finished signals, as delivered to the slot that
\* NodePlugin._download_file connects; GoPlugin connects none
RECURSIVE Deliveries(_, _)
Deliveries(r, signals) ==
  IF r = "go" \/ signals = <<>> THEN <<>>
  ELSE (CASE signals[1] = "finished_true"  -> <<TRUE>>
          [] signals[1] = "finished_false" -> <<FALSE>>
          [] OTHER -> <<>>)
       \o Deliveries(r, Tail(signals))

Emit(job, signals) ==
  [job EXCEPT !.thread = "finished",
              !.events = @ \o signals,
              !.sigq = @ \o Deliveries(job.rt, signals)]

\* run: request_manager.get returned an error string
RunErrorString(j) ==
  /\ jobs[j].thread = "started"
  /\ jobs' = [jobs EXCEPT ![j] = Emit(@, ErrorStringSignals(@.rt))]
  /\ UNCHANGED <<edits, mgr, path, dirs, zips, ops, last, prev>>

\* run: open(self.path, "wb") creates or truncates the destination file
RunOpen(j) ==
  /\ jobs[j].thread = "started"
  /\ zips' = [zips EXCEPT ![jobs[j].rt][jobs[j].zip] = "corrupt"]
  /\ jobs' = [jobs EXCEPT ![j].thread = "streaming"]
  /\ UNCHANGED <<edits, mgr, path, dirs, ops, last, prev>>

\* run: every chunk is written and the file closed; the body served is an
\* intact archive or it is not
RunStreamed(j) ==
  /\ jobs[j].thread = "streaming"
  /\ \E body \in {"valid", "corrupt"} :
       zips' = [zips EXCEPT ![jobs[j].rt][jobs[j].zip] = body]
  /\ jobs' = [jobs EXCEPT ![j] = Emit(@, <<"finished_true">>)]
  /\ UNCHANGED <<edits, mgr, path, dirs, ops, last, prev>>

\* run: an exception while streaming leaves a truncated file
RunException(j) ==
  /\ jobs[j].thread = "streaming"
  /\ jobs' = [jobs EXCEPT ![j] = Emit(@, ExceptionSignals)]
  /\ UNCHANGED <<edits, mgr, path, dirs, zips, ops, last, prev>>

\* faulty variant: the caller does not wait for the thread
NoWait(job) == TRUE

\* QThread.wait(): returns once run has returned
Wait(job) == job.thread = "finished"

\* _is_valid_zip: zipfile.ZipFile raises FileNotFoundError for an absent
\* file (not caught), BadZipFile for a corrupt one (caught)
IsValidZip(z) ==
  CASE z = "valid"   -> "true"
    [] z = "corrupt" -> "false"
    [] z = "absent"  -> "FileNotFoundError"

ValidationEvents(z) ==
  <<"validate", CASE IsValidZip(z) = "true"  -> "valid_true"
                  [] IsValidZip(z) = "false" -> "valid_false"
                  [] OTHER -> "valid_raise">>

\* os.path.exists(go_bin_path_str): the release tree holds go\bin
GoBinExists(d) == d = "complete"

\* GoPlugin.install after download_thread.wait(): validate, unzip, then
\* _set_go_path, which calls _remove_all_go_paths
GoInstallFinish(j) ==
  /\ jobs[j].rt = "go"
  /\ jobs[j].pc = "wait"
  /\ Wait(jobs[j])
  /\ LET job  == jobs[j]
         z    == zips["go"][job.zip]
         name == ExtractDirName("go", job.version)
         done(res, evs, d, p) ==
           /\ dirs' = [dirs EXCEPT !["go"][name] = d]
           /\ path' = p
           /\ jobs' = [jobs EXCEPT ![j].pc = "returned", ![j].result = res,
                                   ![j].events = @ \o evs]
           /\ last' = [last EXCEPT !.res = res, !.after = p]
     IN IF IsValidZip(z) = "FileNotFoundError"
        THEN done("FileNotFoundError", ValidationEvents(z), dirs["go"][name], path)
        ELSE IF IsValidZip(z) = "false"
        THEN done("invalid", ValidationEvents(z), dirs["go"][name], path)
        ELSE \E unzipped \in BOOLEAN :
               IF unzipped
               THEN done("installed", ValidationEvents(z) \o <<"extract">>,
                         "complete",
                         IF GoBinExists("complete")
                         THEN RemoveAllPaths("go", path) ELSE path)
               ELSE done("unzip_failed", ValidationEvents(z) \o <<"extract">>,
                         "partial", path)
  /\ UNCHANGED <<edits, mgr, zips, ops, prev>>

\* NodePlugin._handle_download_complete, run once per finished signal
HandleDownloadComplete(j) ==
  /\ jobs[j].rt = "node"
  /\ jobs[j].sigq # <<>>
  /\ Idle
  /\ LET job  == jobs[j]
         z    == zips["node"][job.zip]
         name == ExtractDirName("node", job.version)
         done(res, evs) ==
           jobs' = [jobs EXCEPT ![j].sigq = Tail(@), ![j].result = res,
                                ![j].events = @ \o evs]
     IN IF ~Head(job.sigq)
        THEN /\ done("download_failed", <<>>)
             /\ UNCHANGED <<edits, mgr, dirs, zips>>
        ELSE IF IsValidZip(z) = "FileNotFoundError"
        THEN /\ done("FileNotFoundError", ValidationEvents(z))
             /\ UNCHANGED <<edits, mgr, dirs, zips>>
        ELSE IF IsValidZip(z) = "false"
        THEN /\ done("invalid", ValidationEvents(z))
             /\ UNCHANGED <<edits, mgr, dirs, zips>>
        ELSE \E extracted \in BOOLEAN :
               IF extracted
               THEN /\ dirs' = [dirs EXCEPT !["node"][name] = "complete"]
                    /\ zips' = [zips EXCEPT !["node"][job.zip] = "absent"]
                    /\ done("installed",
                            ValidationEvents(z) \o <<"extract", "unlink">>)
               ELSE /\ dirs' = [dirs EXCEPT !["node"][name] = "partial"]
                    /\ zips' = zips
                    /\ done("extract_failed", ValidationEvents(z) \o <<"extract">>)
  /\ UNCHANGED <<edits, mgr, path, ops, last, prev>>

Next ==
  \/ \E r \in Runtimes : \E version \in Tags(r) : Install(r, version)
  \/ \E r \in Runtimes : \E version \in Tags(r) : Uninstall(r, version)
  \/ \E r \in Runtimes : \E version \in Tags(r) : UseVersion(r, version)
  \/ \E r \in Runtimes : \E version \in Tags(r) : SetDefault(r, version)
  \/ \E j \in 1..Len(jobs) : RunErrorString(j)
  \/ \E j \in 1..Len(jobs) : RunOpen(j)
  \/ \E j \in 1..Len(jobs) : RunStreamed(j)
  \/ \E j \in 1..Len(jobs) : RunException(j)
  \/ \E j \in 1..Len(jobs) : GoInstallFinish(j)
  \/ \E j \in 1..Len(jobs) : HandleDownloadComplete(j)

Spec == Init /\ [][Next]_vars

(***************************************************************************)
(* Installs only: the caller calls install repeatedly, so that downloads   *)
(* of one plugin can be in flight together.                                *)
(***************************************************************************)
NextJobs ==
  \/ \E r \in Runtimes : \E version \in Tags(r) : InstallAgain(r, version)
  \/ \E j \in 1..Len(jobs) : RunErrorString(j)
  \/ \E j \in 1..Len(jobs) : RunOpen(j)
  \/ \E j \in 1..Len(jobs) : RunStreamed(j)
  \/ \E j \in 1..Len(jobs) : RunException(j)
  \/ \E j \in 1..Len(jobs) : GoInstallFinish(j)
  \/ \E j \in 1..Len(jobs) : HandleDownloadComplete(j)

SpecJobs == Init /\ [][NextJobs]_vars

(***************************************************************************)
(* Properties.                                                             *)
(***************************************************************************)
\* the segments of a Path value that match r's signature
Segments(p) == IF p.exists THEN Split(p.value, Semi) ELSE <<>>
MatchingSegments(r, p) ==
  {i \in 1..Len(Segments(p)) : Matches(r, Segments(p)[i])}
HasSegment(p, seg) == \E i \in 1..Len(Segments(p)) : Segments(p)[i] = seg

\* the job's log holds event e / how many of its events are in es
Occurs(job, e) == \E i \in 1..Len(job.events) : job.events[i] = e
Count(job, es) == Cardinality({i \in 1..Len(job.events) : job.events[i] \in es})

\* the last two public calls were successful use_version calls
TwoUses ==
  /\ prev.op = "use_version" /\ prev.res = "ok"
  /\ last.op = "use_version" /\ last.res = "ok"
  /\ prev.rt = last.rt

SameVersion(r, v1, v2) == CleanVersion(r, v1) = CleanVersion(r, v2)

\* C1: after use_version(v1) and then use_version(v2) succeeded, v1 # v2,
\* the persisted Path holds exactly one segment matching the runtime's
\* signature; it is the bin directory of v2, and no segment is the bin
\* directory of v1.
C1_UniqueActiveSegment ==
  (TwoUses /\ ~SameVersion(last.rt, prev.arg, last.arg)) =>
    /\ path.exists
    /\ Cardinality(MatchingSegments(last.rt, path)) = 1
    /\ \A i \in MatchingSegments(last.rt, path) :
         Segments(path)[i] = UseBinDir(last.rt, last.arg)
    /\ ~HasSegment(path, UseBinDir(last.rt, prev.arg))

\* C1 happens: two different versions were activated in turn, starting from
\* a Path that held several segments of the runtime
C1_Witness ==
  /\ TwoUses /\ ~SameVersion(last.rt, prev.arg, last.arg)
  /\ Cardinality(MatchingSegments(last.rt, prev.before)) >= 2
  /\ HasSegment(path, UseBinDir(last.rt, last.arg))

\* C2: a second consecutive use_version(v) leaves the persisted Path exactly
\* as the first left it.
C2_UseVersionIdempotent ==
  (TwoUses /\ SameVersion(last.rt, prev.arg, last.arg)) => path = prev.after

\* C2 happens: the same version was activated twice, starting from a Path
\* with empty segments and several stale segments of the runtime
C2_Witness ==
  /\ TwoUses /\ SameVersion(last.rt, prev.arg, last.arg)
  /\ Cardinality(MatchingSegments(last.rt, prev.before)) >= 2
  /\ HasSegment(prev.before, <<>>)
  /\ prev.after # prev.before

\* C3: when the active version is uninstalled (the removal itself went
\* through), get_installed_versions no longer lists it, the persisted Path
\* no longer holds its segment, and get_current_version returns none.
C3_UninstallActiveClearsActive ==
  ( /\ prev.op = "use_version" /\ prev.res = "ok"
    /\ last.op = "uninstall" /\ last.res = "ok"
    /\ prev.rt = last.rt /\ SameVersion(last.rt, prev.arg, last.arg) ) =>
    /\ DirName(last.rt, last.arg) \notin GetInstalledVersions(last.rt, dirs[last.rt])
    /\ ~HasSegment(path, UseBinDir(last.rt, last.arg))
    /\ GetCurrentVersion(last.rt, path) = NoVersion

\* the job's install has just completed successfully
BecomesInstalled(j) ==
  jobs[j].result # "installed" /\ jobs'[j].result = "installed"

\* C4: once install(v) has completed successfully, get_installed_versions
\* contains v and v's directory is a complete (non-empty) tree.
C4_InstalledAfterInstall ==
  [][\A j \in 1..Len(jobs) :
       BecomesInstalled(j) =>
         LET r == jobs[j].rt
             v == CleanVersion(r, jobs[j].version)
         IN /\ v \in GetInstalledVersions(r, dirs'[r])
            /\ dirs'[r][v] = "complete"]_vars

\* the install call of job j is over: go's install has returned; node's
\* thread has finished and every queued finished signal has been handled
Concluded(job) ==
  IF job.rt = "go" THEN job.pc = "returned"
  ELSE job.thread = "finished" /\ job.sigq = <<>>

FailureResults ==
  {"download_failed", "FileNotFoundError", "invalid", "unzip_failed", "extract_failed"}

\* C5: when the download job of an install ended in failure, the install
\* reports a failure and performs no extraction.
C5_DownloadFailureFailsInstall ==
  \A j \in 1..Len(jobs) :
    (Occurs(jobs[j], "finished_false") /\ Concluded(jobs[j])) =>
      /\ jobs[j].result \in FailureResults
      /\ ~Occurs(jobs[j], "extract")

\* the job's install has just reported an extraction failure, after a
\* download that succeeded
BecomesExtractFailed(j) ==
  /\ Occurs(jobs[j], "finished_true")
  /\ jobs[j].result \notin {"unzip_failed", "extract_failed"}
  /\ jobs'[j].result \in {"unzip_failed", "extract_failed"}

\* C6: when extraction fails part-way during an install, no partial directory is left when the
\* failure is reported, and get_installed_versions does not list the version.
C6_NoPartialDirectory ==
  [][\A j \in 1..Len(jobs) :
       BecomesExtractFailed(j) =>
         LET r == jobs[j].rt
             n == ExtractDirName(r, jobs[j].version)
         IN /\ dirs'[r][n] # "partial"
            /\ n \notin GetInstalledVersions(r, dirs'[r])]_vars

\* C7: use_version(v) right after an install(v) that ended in an extraction
\* failure reports not-found and adds no segment for v to the persisted Path.
C7_FailedInstallNeverActive ==
  ( /\ prev.op = "install" /\ last.op = "use_version"
    /\ prev.rt = last.rt /\ SameVersion(last.rt, prev.arg, last.arg)
    /\ jobs # <<>>
    /\ Occurs(jobs[Len(jobs)], "finished_true")
    /\ jobs[Len(jobs)].result \in {"unzip_failed", "extract_failed"} ) =>
    /\ last.res = "notfound"
    /\ ~HasSegment(path, UseBinDir(last.rt, last.arg))

\* C8: use_version / set_default on a version with no directory under the
\* install root reports not-found, starts no download, creates no directory
\* or file, and leaves the persisted Path as it was.
C8_UseVersionNotInstalled ==
  [][( /\ ops' = ops + 1
       /\ last'.op = "use_version"
       /\ ~Exists(dirs[last'.rt][DirName(last'.rt, last'.arg)]) ) =>
       /\ last'.res = "notfound"
       /\ path' = path
       /\ dirs' = dirs
       /\ zips' = zips
       /\ jobs' = jobs]_vars

\* C8 happens: use_version reported not-found while the Path held segments
\* of that runtime, and they are still there
C8_Witness ==
  /\ last.op = "use_version" /\ last.res = "notfound"
  /\ Cardinality(MatchingSegments(last.rt, last.before)) >= 2
  /\ path = last.before

\* C9: a finished download job has emitted the finished signal exactly once
\* and the error signal at most once, and never both failure and success.
C9_ExactlyOneTerminalSignal ==
  \A j \in 1..Len(jobs) :
    jobs[j].thread = "finished" =>
      /\ Count(jobs[j], {"finished_true", "finished_false"}) = 1
      /\ Count(jobs[j], {"error"}) <= 1
      /\ ~(Occurs(jobs[j], "finished_true") /\ Occurs(jobs[j], "finished_false"))

\* C10: within an install, validation starts only after the download job's
\* finished signal, and extraction starts only right after validation
\* returned true.
C10_StrictPipeline ==
  \A j \in 1..Len(jobs) :
    \A i \in 1..Len(jobs[j].events) :
      /\ jobs[j].events[i] = "validate" =>
           \E k \in 1..(i - 1) :
             jobs[j].events[k] \in {"finished_true", "finished_false"}
      /\ jobs[j].events[i] = "extract" =>
           (i > 1 /\ jobs[j].events[i - 1] = "valid_true")

\* C10 happens: an install of each kind of outcome went through the
\* pipeline up to an extraction
C10_Witness ==
  \E j \in 1..Len(jobs) :
    /\ Occurs(jobs[j], "finished_true")
    /\ Occurs(jobs[j], "validate")
    /\ Occurs(jobs[j], "extract")

\* the download job of the install call is still running
InFlight(job) == job.thread # "finished"

(***************************************************************************)
(* use_version called from two threads at once.  Nothing in the plugins    *)
(* holds a lock: each QueryValueEx and each SetValueEx on the Path is one  *)
(* step, and the steps of the two calls interleave freely.                 *)
(***************************************************************************)
NewEdit(r, version) ==
  [rt |-> r, version |-> version, pc |-> "called", res |-> "none",
   before |-> NotSet, buf |-> NotSet]

InitEdits ==
  /\ path \in InitPaths
  /\ \E inst \in InitInstalled :
       /\ dirs = [r \in Runtimes |-> DirsOf(r, inst[r])]
       /\ zips = [r \in Runtimes |-> ZipsOf(r, inst[r])]
  /\ jobs = <<>>
  /\ ops = 0
  /\ last = NoCall
  /\ prev = NoCall
  /\ \E r1 \in Runtimes, r2 \in Runtimes :
       \E v1 \in Tags(r1), v2 \in Tags(r2) :
         /\ edits = <<NewEdit(r1, v1), NewEdit(r2, v2)>>
         /\ mgr = r1

\* use_version up to the branch on install_dir.exists()
UseBegin(c) ==
  /\ edits[c].pc = "called"
  /\ LET e == edits[c]
     IN IF Exists(dirs[e.rt][DirName(e.rt, e.version)])
        THEN edits' = [edits EXCEPT ![c].pc = "remove_read", ![c].before = path]
        ELSE edits' = [edits EXCEPT ![c].pc = "returned", ![c].res = "notfound",
                                    ![c].before = path]
  /\ UNCHANGED <<mgr, path, dirs, zips, jobs, ops, last, prev>>

\* _remove_all_*_paths: current_path, _ = winreg.QueryValueEx(key, "Path")
RemoveRead(c) ==
  /\ edits[c].pc = "remove_read"
  /\ edits' = [edits EXCEPT ![c].pc = "remove_write", ![c].buf = path]
  /\ UNCHANGED <<mgr, path, dirs, zips, jobs, ops, last, prev>>

\* _remove_all_*_paths: winreg.SetValueEx(key, "Path", ..., new_path), or
\* nothing when the read raised FileNotFoundError
RemoveWrite(c) ==
  /\ edits[c].pc = "remove_write"
  /\ path' = IF edits[c].buf.exists
             THEN RemoveAllPaths(edits[c].rt, edits[c].buf) ELSE path
  /\ edits' = [edits EXCEPT ![c].pc = "update_read"]
  /\ UNCHANGED <<mgr, dirs, zips, jobs, ops, last, prev>>

\* _update_environment_variable: winreg.QueryValueEx(key, "Path")
UpdateRead(c) ==
  /\ edits[c].pc = "update_read"
  /\ edits' = [edits EXCEPT ![c].pc = "update_write", ![c].buf = path]
  /\ UNCHANGED <<mgr, path, dirs, zips, jobs, ops, last, prev>>

\* _update_environment_variable: winreg.SetValueEx, unless the directory is
\* already in the value read; then use_version returns
UpdateWrite(c) ==
  /\ edits[c].pc = "update_write"
  /\ LET e       == edits[c]
         bin_dir == UseBinDir(e.rt, e.version)
     IN path' = IF e.buf.exists /\ IsSub(bin_dir, e.buf.value)
                THEN path ELSE UpdateEnvironmentVariable(e.buf, bin_dir)
  /\ edits' = [edits EXCEPT ![c].pc = "returned", ![c].res = "ok"]
  /\ UNCHANGED <<mgr, dirs, zips, jobs, ops, last, prev>>

NextEdits ==
  \/ \E c \in 1..Len(edits) : UseBegin(c)
  \/ \E c \in 1..Len(edits) : RemoveRead(c)
  \/ \E c \in 1..Len(edits) : RemoveWrite(c)
  \/ \E c \in 1..Len(edits) : UpdateRead(c)
  \/ \E c \in 1..Len(edits) : UpdateWrite(c)

SpecEdits == InitEdits /\ [][NextEdits]_vars

\* both concurrent use_version calls have returned successfully
BothReturned ==
  /\ Len(edits) >= 2
  /\ \A c \in 1..Len(edits) : edits[c].pc = "returned" /\ edits[c].res = "ok"

\* C11: at most one download job of a plugin is in flight at any time.
C11_OneJobInFlight ==
  \A r \in Runtimes :
    Cardinality({j \in 1..Len(jobs) : jobs[j].rt = r /\ InFlight(jobs[j])}) <= 1

\* C12: when two installs of different versions of a runtime have both
\* completed successfully, each version has its own complete directory.
C12_BothInstalledApart ==
  \A i \in 1..Len(jobs) : \A j \in 1..Len(jobs) :
    ( /\ i # j /\ jobs[i].rt = jobs[j].rt
      /\ ~SameVersion(jobs[i].rt, jobs[i].version, jobs[j].version)
      /\ jobs[i].result = "installed" /\ jobs[j].result = "installed" ) =>
      LET r == jobs[i].rt
      IN /\ ExtractDirName(r, jobs[i].version) # ExtractDirName(r, jobs[j].version)
         /\ dirs[r][CleanVersion(r, jobs[i].version)] = "complete"
         /\ dirs[r][CleanVersion(r, jobs[j].version)] = "complete"

\* C15: the archive validator never raises: every validation of an install
\* ends with the validator returning true or false.
C15_ValidatorTotal ==
  \A j \in 1..Len(jobs) :
    Occurs(jobs[j], "validate") =>
      /\ ~Occurs(jobs[j], "valid_raise")
      /\ jobs[j].result # "FileNotFoundError"

\* C16: an install that ended because the validator rejected the downloaded
\* file has extracted nothing and has removed the file at download_path.
C16_RejectedArchiveRemoved ==
  \A j \in 1..Len(jobs) :
    (jobs[j].result = "invalid" /\ Occurs(jobs[j], "valid_false")) =>
      /\ ~Occurs(jobs[j], "extract")
      /\ zips[jobs[j].rt][jobs[j].zip] = "absent"

\* C18: a successful GoPlugin.install (the download succeeded) leaves the persisted Path as it was,
\* and get_current_version returns what it returned before the install.
C18_InstallKeepsActive ==
  ( /\ last.op = "install" /\ last.rt = "go" /\ last.res = "installed"
    /\ \E j \in 1..Len(jobs) : Occurs(jobs[j], "finished_true") ) =>
    /\ last.after = last.before
    /\ GetCurrentVersion("go", last.after) = GetCurrentVersion("go", last.before)

\* C19: immediately after a successful use_version(v), get_current_version
\* returns the raw tag of v.
C19_UseThenCurrent ==
  (last.op = "use_version" /\ last.res = "ok") =>
    GetCurrentVersion(last.rt, path) =
      [kind |-> "value", version |-> CleanVersion(last.rt, last.arg)]

\* C19 happens: a version given in display form was activated on a Path
\* holding several stale segments of the runtime
C19_Witness ==
  /\ last.op = "use_version" /\ last.res = "ok"
  /\ last.arg # CleanVersion(last.rt, last.arg)
  /\ Cardinality(MatchingSegments(last.rt, last.before)) >= 2
  /\ GetCurrentVersion(last.rt, path).kind = "value"

\* C20: the segment a successful GoPlugin.use_version(v) leaves in the
\* persisted Path is the bin directory that install(v) computes for v.
C20_OneBinDirectory ==
  (last.op = "use_version" /\ last.rt = "go" /\ last.res = "ok") =>
    /\ UseBinDir("go", last.arg) = InstallBinDir(last.arg)
    /\ HasSegment(path, InstallBinDir(last.arg))

\* C13: once two concurrent use_version calls of one runtime for different
\* versions have both returned, the persisted Path holds exactly one segment
\* of that runtime, the bin directory of one of the two versions.
C13_SerializedPerRuntime ==
  ( /\ BothReturned
    /\ \A c \in 1..Len(edits) : \A d \in 1..Len(edits) :
         c # d => /\ edits[c].rt = edits[d].rt
                  /\ ~SameVersion(edits[c].rt, edits[c].version, edits[d].version) ) =>
    /\ Cardinality(MatchingSegments(edits[1].rt, path)) = 1
    /\ \E c \in 1..Len(edits) :
         HasSegment(path, UseBinDir(edits[c].rt, edits[c].version))

\* C14: once concurrent use_version calls of different runtimes have both
\* returned, the persisted Path holds the bin segment of each call and every
\* segment that matched neither runtime before the calls.
C14_RuntimesIndependent ==
  ( /\ BothReturned
    /\ \A c \in 1..Len(edits) : \A d \in 1..Len(edits) :
         c # d => edits[c].rt # edits[d].rt ) =>
    \A c \in 1..Len(edits) :
      /\ HasSegment(path, UseBinDir(edits[c].rt, edits[c].version))
      /\ \A i \in 1..Len(Segments(edits[c].before)) :
           (\A r \in Runtimes : ~Matches(r, Segments(edits[c].before)[i])) =>
             HasSegment(path, Segments(edits[c].before)[i])

\* the segments of p that do not match runtime r, in their order
KeptSegments(r, p) == SelectSeq(Segments(p), LAMBDA seg : ~Matches(r, seg))

\* call c takes the write step of _remove_all_*_paths
RemoveWritten(c) ==
  edits[c].pc = "remove_write" /\ edits'[c].pc = "update_read"

\* C17: remove_all writes back the Path it read without the segments that
\* match the runtime and with every other segment, in the same number and
\* order; applied again it changes nothing; a Path that does not exist is
\* not created.
C17_RemoveAllFrame ==
  [][ \A c \in 1..Len(edits) :
        RemoveWritten(c) =>
          LET r    == edits[c].rt
              read == edits[c].buf
          IN IF read.exists
             THEN /\ path'.exists
                  /\ MatchingSegments(r, path') = {}
                  /\ IF KeptSegments(r, read) = <<>> THEN path'.value = <<>>
                     ELSE Segments(path') = KeptSegments(r, read)
                  /\ RemoveAllPaths(r, path') = path'
             ELSE path' = path ]_vars

\* C17 happens: remove_all has just rewritten a Path that held several
\* segments of the runtime, an empty segment and segments of other kinds
C17_Witness ==
  \E c \in 1..Len(edits) :
    /\ edits[c].pc = "update_read"
    /\ Cardinality(MatchingSegments(edits[c].rt, edits[c].buf)) >= 2
    /\ HasSegment(edits[c].buf, <<>>)
    /\ Len(KeptSegments(edits[c].rt, edits[c].buf)) >= 2
    /\ path = RemoveAllPaths(edits[c].rt, edits[c].buf)
    /\ path # edits[c].buf

=============================================================================
